---- MODULE Spec2Model ----
(***************************************************************************)
(* Model of the voxel layout pipeline of megaverse:                        *)
(*   - BoundingBox::addPoint (layout generator header),                    *)
(*   - LayoutGenerator::extractPrimitives (declared in the header, body    *)
(*     not among the sources: modelled from the specification text),       *)
(*   - Viewer::Viewer and Viewer::drawEvent (apps/viewer.cpp),             *)
(*   - RigidBody (libs/env/include/env/physics.hpp).                       *)
(* Three specifications share the variables: SpecBox, SpecEnv, SpecBody.   *)
(***************************************************************************)
EXTENDS Integers, Sequences, FiniteSets, TLC

\* ------------------------------------------------------------------ bounds
\* Coordinates of the points fed to addPoint range over 0..CoordMax per axis.
CoordMax == 1
\* Number of addPoint calls on one box.
MaxPoints == 2
\* Number of RigidBody objects.
NumBodies == 4
\* Extent of the voxel grid handed to extractPrimitives (x = length, y = height,
\* z = width).
GridLength == 2
GridHeight == 1
GridWidth == 2
\* Number of non-empty cells of the grid.
MaxSolid == 3
\* Number of frames drawn by the viewer.
MaxFrames == 2

VARIABLES
    box,        \* BoundingBox under test: [min, max]
    added,      \* ghost: the seed point followed by every point passed to addPoint
    prevBox,    \* ghost: the box before the last addPoint call
    bodies,     \* RigidBody objects: id -> [life, colliding, inWorld]
    grid,               \* VoxelGrid<VoxelState>: cell -> classification
    phase,              \* "grid" | "extracted" | "viewer"
    layoutDrawables,    \* Env's vector<BoundingBox>, the result of extractPrimitives
    layoutObjects,      \* Viewer::layoutObjects: one transformation per box
    drawables,          \* Viewer::drawables, in order of insertion
    voxelInstanceData,  \* Viewer::voxelInstanceData
    cubeInstanceCount,  \* instance count of Viewer::cubeMesh
    frames              \* ghost: number of drawEvent calls so far

vars == <<box, added, prevBox, bodies, grid, phase, layoutDrawables, layoutObjects,
          drawables, voxelInstanceData, cubeInstanceCount, frames>>

\* ------------------------------------------------------------ VoxelCoords
VoxelCoords(px, py, pz) == [x |-> px, y |-> py, z |-> pz]

Points == {VoxelCoords(px, py, pz) : px \in 0..CoordMax, py \in 0..CoordMax, pz \in 0..CoordMax}

Min2(a, b) == IF a <= b THEN a ELSE b
Max2(a, b) == IF a >= b THEN a ELSE b

componentwise_min(a, b) == VoxelCoords(Min2(a.x, b.x), Min2(a.y, b.y), Min2(a.z, b.z))
componentwise_max(a, b) == VoxelCoords(Max2(a.x, b.x), Max2(a.y, b.y), Max2(a.z, b.z))

LeqAll(a, b) == a.x <= b.x /\ a.y <= b.y /\ a.z <= b.z

\* ------------------------------------------------------------ BoundingBox
BoundingBox(bmin, bmax) == [min |-> bmin, max |-> bmax]

\* Plausible slips of addPoint, used to show the properties depend on the code.
\* The min branch tests the x axis only.
addPointXOnly(b, v) ==
    IF v.x <= b.min.x
    THEN [b EXCEPT !.min = v]
    ELSE IF v.x >= b.max.x /\ v.y >= b.max.y /\ v.z >= b.max.z
         THEN [b EXCEPT !.max = v]
         ELSE b

\* The two assignments are swapped.
addPointSwapped(b, v) ==
    IF v.x <= b.min.x /\ v.y <= b.min.y /\ v.z <= b.min.z
    THEN [b EXCEPT !.max = v]
    ELSE IF v.x >= b.max.x /\ v.y >= b.max.y /\ v.z >= b.max.z
         THEN [b EXCEPT !.min = v]
         ELSE b

\* The max branch compares strictly.
addPointStrict(b, v) ==
    IF v.x <= b.min.x /\ v.y <= b.min.y /\ v.z <= b.min.z
    THEN [b EXCEPT !.min = v]
    ELSE IF v.x > b.max.x /\ v.y > b.max.y /\ v.z > b.max.z
         THEN [b EXCEPT !.max = v]
         ELSE b

\* BoundingBox::addPoint: one branch at most is taken.
addPoint(b, v) ==
    IF v.x <= b.min.x /\ v.y <= b.min.y /\ v.z <= b.min.z
    THEN [b EXCEPT !.min = v]
    ELSE IF v.x >= b.max.x /\ v.y >= b.max.y /\ v.z >= b.max.z
         THEN [b EXCEPT !.max = v]
         ELSE b

Contains(b, v) == LeqAll(b.min, v) /\ LeqAll(v, b.max)

\* addPoint applied to the points of s, in order, starting from b.
RECURSIVE AddAll(_, _)
AddAll(b, s) == IF s = <<>> THEN b ELSE AddAll(addPoint(b, Head(s)), Tail(s))

\* ------------------------------------------------------------- RigidBody
BodyIds == 1..NumBodies

\* Member initialisers before the constructor body runs: colliding = false.
NoBody == [life |-> "none", colliding |-> FALSE, inWorld |-> 0, badAdd |-> FALSE, badRemove |-> FALSE]

\* btDynamicsWorld::addRigidBody appends the body to the world's array.
addRigidBody(rb) == [rb EXCEPT !.inWorld = @ + 1, !.badAdd = @ \/ rb.inWorld > 0]

\* btDynamicsWorld::removeRigidBody removes one occurrence, if there is one.
removeRigidBody(rb) ==
    [rb EXCEPT !.inWorld = IF @ > 0 THEN @ - 1 ELSE 0, !.badRemove = @ \/ rb.inWorld = 0]

\* RigidBody::RigidBody
RigidBodyCtor(rb) == [addRigidBody(rb) EXCEPT !.life = "alive", !.colliding = TRUE]

\* RigidBody::~RigidBody
RigidBodyDtor(rb) ==
    [(IF rb.colliding THEN removeRigidBody(rb) ELSE rb) EXCEPT !.life = "dead"]

\* A slip of toggleCollision: the flag is not cleared on removal.
toggleCollisionStale(rb) ==
    IF rb.colliding
    THEN removeRigidBody(rb)
    ELSE [addRigidBody(rb) EXCEPT !.colliding = TRUE]

\* RigidBody::toggleCollision
toggleCollision(rb) ==
    IF rb.colliding
    THEN [removeRigidBody(rb) EXCEPT !.colliding = FALSE]
    ELSE [addRigidBody(rb) EXCEPT !.colliding = TRUE]

\* ------------------------------------------------------------- VoxelGrid
Cells ==
    {VoxelCoords(cx, cy, cz) : cx \in 0..(GridLength - 1), cy \in 0..(GridHeight - 1),
                               cz \in 0..(GridWidth - 1)}

VoxelState == {"empty", "floor", "wall"}

\* Position of a cell in the scan: x-major, then y, then z.
Rank(c) == (c.x * GridHeight + c.y) * GridWidth + c.z

CellAt(i) == CHOOSE c \in Cells : Rank(c) = i

\* The cells of S in scan order.
RECURSIVE InScanOrder(_)
InScanOrder(S) ==
    IF S = {} THEN <<>>
    ELSE LET c == CHOOSE c \in S : \A d \in S : Rank(c) <= Rank(d)
         IN  <<c>> \o InScanOrder(S \ {c})

\* ------------------------------------------- LayoutGenerator::extractPrimitives
\* The layer of cells next to the box on its far side along an axis.
Face(b, axis) ==
    CASE axis = "x" -> {VoxelCoords(b.max.x + 1, cy, cz) :
                           cy \in b.min.y..b.max.y, cz \in b.min.z..b.max.z}
      [] axis = "y" -> {VoxelCoords(cx, b.max.y + 1, cz) :
                           cx \in b.min.x..b.max.x, cz \in b.min.z..b.max.z}
      [] axis = "z" -> {VoxelCoords(cx, cy, b.max.z + 1) :
                           cx \in b.min.x..b.max.x, cy \in b.min.y..b.max.y}

\* Extend the candidate box along one axis while every covered cell is an
\* unvisited cell of the same classification; the covered cells become visited
\* and are merged into the box with addPoint.
RECURSIVE Grow(_, _, _, _)
Grow(g, st, axis, cls) ==
    LET face == Face(st.box, axis)
        ok   == /\ face # {}
                /\ face \subseteq Cells
                /\ \A c \in face : g[c] = cls /\ c \notin st.visited
    IN  IF ok
        THEN Grow(g, [box |-> AddAll(st.box, InScanOrder(face)),
                      visited |-> st.visited \cup face], axis, cls)
        ELSE st

\* The box grown from one seed cell: along x, then y, then z.
GrowBox(g, visited, c) ==
    LET s0 == [box |-> BoundingBox(c, c), visited |-> visited \cup {c}]
        s1 == Grow(g, s0, "x", g[c])
        s2 == Grow(g, s1, "y", g[c])
    IN  Grow(g, s2, "z", g[c])

RECURSIVE Scan(_, _, _, _)
Scan(g, i, visited, out) ==
    IF i >= Cardinality(Cells) THEN out
    ELSE LET c == CellAt(i)
         IN  IF g[c] = "empty" \/ c \in visited
             THEN Scan(g, i + 1, visited, out)
             ELSE LET s == GrowBox(g, visited, c)
                  IN  Scan(g, i + 1, s.visited, Append(out, s.box))

extractPrimitives(g) == Scan(g, 0, {}, <<>>)

\* ------------------------------------------------------------------ Viewer
\* Lengths are kept in units of 1/2: the number n2 stands for n2/2.
Vector3(vx, vy, vz) == [x |-> vx, y |-> vy, z |-> vz]

\* float(n) / 2, in units of 1/2.
HalfOf(n) == n

\* Object3D's transformation: p -> scaling * p + translation, per axis.
Identity == [scaling |-> Vector3(2, 2, 2), translation |-> Vector3(0, 0, 0)]

\* Object3D::scale: the scaling is applied after the current transformation.
scale(t, k) ==
    [scaling     |-> Vector3((k.x * t.scaling.x) \div 2, (k.y * t.scaling.y) \div 2,
                             (k.z * t.scaling.z) \div 2),
     translation |-> Vector3((k.x * t.translation.x) \div 2, (k.y * t.translation.y) \div 2,
                             (k.z * t.translation.z) \div 2)]

\* Object3D::translate
translate(t, d) ==
    [t EXCEPT !.translation = Vector3(@.x + d.x, @.y + d.y, @.z + d.z)]

\* A slip of the constructor's loop: the sum is halved as an integer before
\* the conversion to float.
layoutTransformIntDiv(b) ==
    LET sc == Vector3(HalfOf(b.max.x - b.min.x + 1), HalfOf(b.max.y - b.min.y + 1),
                      HalfOf(b.max.z - b.min.z + 1))
    IN  translate(translate(scale(Identity, sc), Vector3(1, 1, 1)),
                  Vector3(2 * ((b.min.x + b.max.x) \div 2), 2 * ((b.min.y + b.max.y) \div 2),
                          2 * ((b.min.z + b.max.z) \div 2)))

\* Viewer::Viewer, body of the loop over layoutDrawables: the transformation
\* given to the voxelObject of one box.
layoutTransform(b) ==
    LET sc == Vector3(HalfOf(b.max.x - b.min.x + 1), HalfOf(b.max.y - b.min.y + 1),
                      HalfOf(b.max.z - b.min.z + 1))
    IN  translate(translate(scale(Identity, sc), Vector3(1, 1, 1)),
                  Vector3(HalfOf(b.min.x + b.max.x), HalfOf(b.min.y + b.max.y),
                          HalfOf(b.min.z + b.max.z)))

\* CustomDrawable::draw appends one instance; FlatDrawable::draw and
\* SimpleDrawable3D::draw issue their own draw call and append nothing.
DrawableDraw(d, data, objects) ==
    IF d.kind = "CustomDrawable"
    THEN Append(data, [object |-> d.object, transformationMatrix |-> objects[d.object],
                       color |-> "a5c9ea"])
    ELSE data

\* Camera3D::draw(drawables): every drawable of the group is drawn once.
RECURSIVE CameraDraw(_, _, _)
CameraDraw(ds, data, objects) ==
    IF ds = <<>> THEN data
    ELSE CameraDraw(Tail(ds), DrawableDraw(Head(ds), data, objects), objects)

\* A slip of drawEvent: the instance array is not emptied first.
drawEventNoResize(data, ds, objects) == CameraDraw(ds, data, objects)

\* Viewer::drawEvent: arrayResize(voxelInstanceData, 0), then camera->draw.
drawEvent(data, ds, objects) == CameraDraw(ds, <<>>, objects)

\* ----------------------------------------------------------- SpecBox
boxVars == <<box, added, prevBox>>
bodyVars == <<bodies>>
envVars == <<grid, phase, layoutDrawables, layoutObjects, drawables, voxelInstanceData,
             cubeInstanceCount, frames>>

EmptyGrid == [c \in Cells |-> "empty"]

InitEnvIdle ==
    /\ grid = EmptyGrid
    /\ phase = "idle"
    /\ layoutDrawables = <<>>
    /\ layoutObjects = <<>>
    /\ drawables = <<>>
    /\ voxelInstanceData = <<>>
    /\ cubeInstanceCount = 0
    /\ frames = 0

IdleBox == BoundingBox(VoxelCoords(0, 0, 0), VoxelCoords(0, 0, 0))

InitBox ==
    /\ \E p \in Points :
          /\ box = BoundingBox(p, p)
          /\ added = <<p>>
    /\ prevBox = box
    /\ bodies = [b \in BodyIds |-> NoBody]
    /\ InitEnvIdle

AddPoint ==
    /\ Len(added) <= MaxPoints
    /\ \E v \in Points :
          /\ box' = addPoint(box, v)
          /\ added' = Append(added, v)
    /\ prevBox' = box
    /\ UNCHANGED <<bodyVars, envVars>>

NextBox == AddPoint

SpecBox == InitBox /\ [][NextBox]_vars

\* ----------------------------------------------------------- SpecBody
InitBody ==
    /\ box = IdleBox
    /\ added = <<>>
    /\ prevBox = IdleBox
    /\ bodies = [b \in BodyIds |-> NoBody]
    /\ InitEnvIdle

Construct(b) ==
    /\ bodies[b].life = "none"
    /\ bodies' = [bodies EXCEPT ![b] = RigidBodyCtor(@)]
    /\ UNCHANGED <<boxVars, envVars>>

ToggleCollision(b) ==
    /\ bodies[b].life = "alive"
    /\ bodies' = [bodies EXCEPT ![b] = toggleCollision(@)]
    /\ UNCHANGED <<boxVars, envVars>>

Destroy(b) ==
    /\ bodies[b].life = "alive"
    /\ bodies' = [bodies EXCEPT ![b] = RigidBodyDtor(@)]
    /\ UNCHANGED <<boxVars, envVars>>

NextBody == \E b \in BodyIds : Construct(b) \/ ToggleCollision(b) \/ Destroy(b)

SpecBody == InitBody /\ [][NextBody]_vars

\* ----------------------------------------------------------- SpecEnv
InitEnv ==
    /\ box = IdleBox
    /\ added = <<>>
    /\ prevBox = IdleBox
    /\ bodies = [b \in BodyIds |-> NoBody]
    /\ \E S \in {T \in SUBSET Cells : Cardinality(T) <= MaxSolid} :
          \E f \in [S -> VoxelState \ {"empty"}] :
             grid = [c \in Cells |-> IF c \in S THEN f[c] ELSE "empty"]
    /\ phase = "grid"
    /\ layoutDrawables = <<>>
    /\ layoutObjects = <<>>
    /\ drawables = <<>>
    /\ voxelInstanceData = <<>>
    /\ cubeInstanceCount = 0
    /\ frames = 0

\* Env builds its layout: the boxes of the grid become the layout drawables.
ExtractPrimitives ==
    /\ phase = "grid"
    /\ layoutDrawables' = extractPrimitives(grid)
    /\ phase' = "extracted"
    /\ UNCHANGED <<boxVars, bodyVars, grid, layoutObjects, drawables, voxelInstanceData,
                   cubeInstanceCount, frames>>

\* Viewer::Viewer: the axis and exit pad drawables, then one object and one
\* CustomDrawable per layout box.
ViewerCtor ==
    /\ phase = "extracted"
    /\ layoutObjects' = [i \in 1..Len(layoutDrawables) |-> layoutTransform(layoutDrawables[i])]
    /\ drawables' = <<[kind |-> "FlatDrawable", object |-> 0],
                      [kind |-> "SimpleDrawable3D", object |-> 0]>>
                    \o [i \in 1..Len(layoutDrawables) |->
                           [kind |-> "CustomDrawable", object |-> i]]
    /\ phase' = "viewer"
    /\ UNCHANGED <<boxVars, bodyVars, grid, layoutDrawables, voxelInstanceData,
                   cubeInstanceCount, frames>>

\* Viewer::drawEvent
DrawEvent ==
    /\ phase = "viewer"
    /\ frames < MaxFrames
    /\ voxelInstanceData' = drawEvent(voxelInstanceData, drawables, layoutObjects)
    /\ cubeInstanceCount' = Len(voxelInstanceData')
    /\ frames' = frames + 1
    /\ UNCHANGED <<boxVars, bodyVars, grid, phase, layoutDrawables, layoutObjects, drawables>>

NextEnv == ExtractPrimitives \/ ViewerCtor \/ DrawEvent

SpecEnv == InitEnv /\ [][NextEnv]_vars

\* =================================================================== claims
Last(s) == s[Len(s)]

SeedBox == BoundingBox(added[1], added[1])

\* The bijections of 1..n.
Perms(n) == {f \in [1..n -> 1..n] : \A i, j \in 1..n : f[i] = f[j] => i = j}

MinOver(S) == CHOOSE m \in S : \A n \in S : m <= n
MaxOver(S) == CHOOSE m \in S : \A n \in S : m >= n

\* C1: after addPoint(v) the box has min' = componentwise_min(min, v) and
\* max' = componentwise_max(max, v), every axis updated on its own.
C1_AddPointComponentwise ==
    Len(added) > 1 =>
        /\ box.min = componentwise_min(prevBox.min, Last(added))
        /\ box.max = componentwise_max(prevBox.max, Last(added))

\* C2: the box contains every point that was passed to addPoint, the last one
\* and the earlier ones.
C2_AddedPointsContained ==
    \A i \in 2..Len(added) : Contains(box, added[i])

\* C3: the points passed to addPoint give the same box in every order, and
\* that box is the per-axis minimum and maximum over all the points.
C3_OrderIndependent ==
    Len(added) > 1 =>
        LET pts == Tail(added)
            n   == Len(pts)
            all == {added[i] : i \in 1..Len(added)}
        IN  /\ \A f \in Perms(n) : AddAll(SeedBox, [i \in 1..n |-> pts[f[i]]]) = box
            /\ box.min = VoxelCoords(MinOver({p.x : p \in all}), MinOver({p.y : p \in all}),
                                     MinOver({p.z : p \in all}))
            /\ box.max = VoxelCoords(MaxOver({p.x : p \in all}), MaxOver({p.y : p \in all}),
                                     MaxOver({p.z : p \in all}))

\* C4: a box seeded with one point keeps min <= max on every axis through any
\* sequence of addPoint calls.
C4_MinLeqMax == LeqAll(box.min, box.max)

\* Both corners have moved away from the seed.
C4_Witness ==
    /\ Len(added) > 2
    /\ box.min # added[1]
    /\ box.max # added[1]
    /\ box.min # box.max

\* The cells of a box, and their number.
CellsOf(b) ==
    {VoxelCoords(cx, cy, cz) : cx \in b.min.x..b.max.x, cy \in b.min.y..b.max.y,
                               cz \in b.min.z..b.max.z}

Volume(b) == Cardinality(CellsOf(b))

RECURSIVE SumVolumes(_)
SumVolumes(bs) == IF bs = <<>> THEN 0 ELSE Volume(Head(bs)) + SumVolumes(Tail(bs))

Solid == {c \in Cells : grid[c] # "empty"}

C6_CubeCoversBox ==
    phase = "viewer" =>
        /\ Len(layoutObjects) = Len(layoutDrawables)
        /\ \A i \in 1..Len(layoutDrawables) :
              LET b == layoutDrawables[i]
                  t == layoutObjects[i]
              IN  /\ t.scaling = Vector3(b.max.x - b.min.x + 1, b.max.y - b.min.y + 1,
                                         b.max.z - b.min.z + 1)
                  /\ t.translation = Vector3(b.min.x + b.max.x + 1, b.min.y + b.max.y + 1,
                                             b.min.z + b.max.z + 1)
                  /\ t.translation.x - t.scaling.x = 2 * b.min.x
                  /\ t.translation.x + t.scaling.x = 2 * (b.max.x + 1)
                  /\ t.translation.y - t.scaling.y = 2 * b.min.y
                  /\ t.translation.y + t.scaling.y = 2 * (b.max.y + 1)
                  /\ t.translation.z - t.scaling.z = 2 * b.min.z
                  /\ t.translation.z + t.scaling.z = 2 * (b.max.z + 1)

\* A viewer built for a single-cell box and a box of several cells.
C6_Witness ==
    /\ phase = "viewer"
    /\ Len(layoutObjects) >= 2
    /\ \E i \in 1..Len(layoutDrawables) : layoutDrawables[i].min = layoutDrawables[i].max
    /\ \E i \in 1..Len(layoutDrawables) : layoutDrawables[i].min # layoutDrawables[i].max

\* C8: after every drawEvent the instance array holds one entry per layout
\* box, and the cube mesh's instance count is the number of layout boxes.
C8_OneInstancePerBox ==
    frames > 0 =>
        /\ Len(voxelInstanceData) = Len(layoutDrawables)
        /\ cubeInstanceCount = Len(layoutDrawables)
        /\ \A i \in 1..Len(layoutDrawables) :
              Cardinality({k \in 1..Len(voxelInstanceData) :
                              voxelInstanceData[k].object = i}) = 1

\* A second frame drawn for a layout of several boxes.
C8_Witness ==
    /\ frames >= 2
    /\ Len(layoutDrawables) >= 2
    /\ Len(voxelInstanceData) >= 2

\* C9: while a body exists, colliding is true exactly when the body is in the
\* dynamics world; no body is added while registered or removed while not
\* registered; toggling twice restores the state; once the destructor has run
\* the body is not in the world (its members are gone with it).
C9_CollidingIffRegistered ==
    \A b \in BodyIds :
        LET rb == bodies[b]
        IN  /\ rb.inWorld \in {0, 1}
            /\ rb.life # "dead" => (rb.colliding <=> rb.inWorld = 1)
            /\ ~rb.badAdd
            /\ ~rb.badRemove
            /\ rb.life = "dead" => rb.inWorld = 0
            /\ rb.life = "alive" => toggleCollision(toggleCollision(rb)) = rb

\* One body destroyed while registered, one destroyed after a toggle, one alive
\* with collisions toggled off.
C9_Witness ==
    \E a, b, c \in BodyIds :
        /\ bodies[a].life = "dead" /\ ~bodies[a].colliding
        /\ bodies[b].life = "dead" /\ bodies[b].colliding
        /\ bodies[c].life = "alive" /\ ~bodies[c].colliding

\* C10: addPoint never shrinks the box: the new min is <= the old min and the
\* new max is >= the old max on every axis, so the cells of the box stay in it.
C10_NeverShrinks ==
    /\ LeqAll(box.min, prevBox.min)
    /\ LeqAll(prevBox.max, box.max)
    /\ \A p \in Points : Contains(prevBox, p) => Contains(box, p)

\* A call that moved a corner.
C10_Witness ==
    /\ Len(added) > 1
    /\ box # prevBox

====
